---- MODULE Spec2Model ----
(***************************************************************************)
(* Gov-AI: the intent-routing workflows of chatbot.py (keyword             *)
(* classifier), chatbot_new.py (model classifier, six handlers) and        *)
(* sql_agent.py (model classifier, query synthesis / execution /           *)
(* formatting), together with the interactive loop that drives each.       *)
(*                                                                         *)
(* Texts are TLA+ strings handled character by character.  The TLA+ lexer  *)
(* has no backquote, so the backquote of a markdown code fence is written  *)
(* "^" throughout.  Python's None is the string None where the field is a  *)
(* text, and a tagged record where the field is a list.                    *)
(***************************************************************************)
EXTENDS Integers, Sequences, FiniteSets, TLC

(***************************************************************************)
(* Bounds of the model.                                                    *)
(***************************************************************************)
\* Lines read from the prompt in one run of the interactive loop.
MaxTurns == 2
\* Rows the store may return to one call.
MaxRows == 6

(***************************************************************************)
(* Python string primitives.                                               *)
(***************************************************************************)
None == "<None>"

\* the letters, each with its other case
LowerOf ==
    [A |-> "a", B |-> "b", C |-> "c", D |-> "d", E |-> "e", F |-> "f", G |-> "g",
     H |-> "h", I |-> "i", J |-> "j", K |-> "k", L |-> "l", M |-> "m", N |-> "n",
     O |-> "o", P |-> "p", Q |-> "q", R |-> "r", S |-> "s", T |-> "t", U |-> "u",
     V |-> "v", W |-> "w", X |-> "x", Y |-> "y", Z |-> "z"]
UpperOf ==
    [a |-> "A", b |-> "B", c |-> "C", d |-> "D", e |-> "E", f |-> "F", g |-> "G",
     h |-> "H", i |-> "I", j |-> "J", k |-> "K", l |-> "L", m |-> "M", n |-> "N",
     o |-> "O", p |-> "P", q |-> "Q", r |-> "R", s |-> "S", t |-> "T", u |-> "U",
     v |-> "V", w |-> "W", x |-> "X", y |-> "Y", z |-> "Z"]

CharAt(s, i) == SubSeq(s, i, i)

IsSpace(c) == c \in {" ", "\n", "\t"}

\* str.upper() / str.lower() on one character
UpperChar(c) == IF c \in DOMAIN UpperOf THEN UpperOf[c] ELSE c

LowerChar(c) == IF c \in DOMAIN LowerOf THEN LowerOf[c] ELSE c

RECURSIVE Upper(_)
Upper(s) == IF s = "" THEN "" ELSE UpperChar(Head(s)) \o Upper(Tail(s))

RECURSIVE Lower(_)
Lower(s) == IF s = "" THEN "" ELSE LowerChar(Head(s)) \o Lower(Tail(s))

RECURSIVE LStrip(_)
LStrip(s) == IF s # "" /\ IsSpace(Head(s)) THEN LStrip(Tail(s)) ELSE s

RECURSIVE RStrip(_)
RStrip(s) ==
    IF s # "" /\ IsSpace(CharAt(s, Len(s)))
    THEN RStrip(SubSeq(s, 1, Len(s) - 1))
    ELSE s

\* str.strip()
Strip(s) == RStrip(LStrip(s))

\* str.startswith
StartsWith(s, p) == Len(p) <= Len(s) /\ SubSeq(s, 1, Len(p)) = p

\* the Python test `sub in s`
Contains(s, sub) ==
    \E i \in 1..(Len(s) - Len(sub) + 1) : SubSeq(s, i, i + Len(sub) - 1) = sub

\* Python truthiness of an Optional[str]
Truthy(v) == v # None /\ v # ""


(***************************************************************************)
(* Regular expressions used by sql_agent.py.                               *)
(***************************************************************************)
\* re.sub(r'^^^^sql\s*', '', s): a leading fence with the sql tag
SubFenceSql(s) == IF StartsWith(s, "^^^sql") THEN LStrip(SubSeq(s, 7, Len(s))) ELSE s

\* re.sub(r'^^^^\s*', '', s): a leading bare fence
SubFenceStart(s) == IF StartsWith(s, "^^^") THEN LStrip(SubSeq(s, 4, Len(s))) ELSE s

\* r'^^^\s*$' matches at i: a fence at i and only white space after it
FenceEndAt(s, i) ==
    /\ SubSeq(s, i, i + 2) = "^^^"
    /\ \A j \in (i + 3)..Len(s) : IsSpace(CharAt(s, j))

\* re.sub(r'^^^\s*$', '', s): the leftmost closing fence and what follows it
SubFenceEnd(s) ==
    IF \E i \in 1..(Len(s) - 2) : FenceEndAt(s, i)
    THEN LET i == CHOOSE k \in 1..(Len(s) - 2) :
                    FenceEndAt(s, k) /\ \A m \in 1..(k - 1) : ~FenceEndAt(s, m)
         IN SubSeq(s, 1, i - 1)
    ELSE s

\* the cleaning of generate_sql_query, lines 154-160
CleanSql(text) == Strip(SubFenceEnd(SubFenceStart(SubFenceSql(Strip(text)))))

\* first index >= i of s that holds no white space (Len(s) + 1 if none)
RECURSIVE SkipSpaces(_, _)
SkipSpaces(s, i) ==
    IF i <= Len(s) /\ IsSpace(CharAt(s, i)) THEN SkipSpaces(s, i + 1) ELSE i

\* first index >= i of s that holds "%" (Len(s) + 1 if none)
RECURSIVE NextPercent(_, _)
NextPercent(s, i) ==
    IF i <= Len(s) /\ CharAt(s, i) # "%" THEN NextPercent(s, i + 1) ELSE i

\* r"title\s+ilike\s+'%([^%]+)%'" matched at index i of s: the end points of
\* group 1, or <<0, 0>> when there is no match at i
TitleIlikeAt(s, i) ==
    LET a == i + 5
        b == SkipSpaces(s, a)
        c == b + 5
        d == SkipSpaces(s, c)
        e == d + 2
        f == NextPercent(s, e)
    IN IF /\ SubSeq(s, i, a - 1) = "title"
          /\ b > a
          /\ c - 1 <= Len(s) /\ SubSeq(s, b, c - 1) = "ilike"
          /\ d > c
          /\ e - 1 <= Len(s) /\ SubSeq(s, d, e - 1) = "'%"
          /\ f > e
          /\ f + 1 <= Len(s) /\ SubSeq(s, f, f + 1) = "%'"
       THEN <<e, f - 1>>
       ELSE <<0, 0>>

\* re.search(...) succeeds
TitleIlikeMatches(s) ==
    \E i \in 1..(Len(s) - 4) : i + 4 <= Len(s) /\ TitleIlikeAt(s, i) # <<0, 0>>

\* match.group(1) of the leftmost match
TitleIlikeGroup(s) ==
    LET i == CHOOSE k \in 1..(Len(s) - 4) :
                 /\ TitleIlikeAt(s, k) # <<0, 0>>
                 /\ \A m \in 1..(k - 1) : TitleIlikeAt(s, m) = <<0, 0>>
        g == TitleIlikeAt(s, i)
    IN SubSeq(s, g[1], g[2])

(***************************************************************************)
(* The external collaborators: what the prompt, the text model and the     *)
(* store may hand to the program.                                          *)
(***************************************************************************)
\* the three programs of the repository
Variants == {"chatbot", "chatbot_new", "sql_agent"}

\* lines typed at the prompt
Inputs ==
    { "exit", "Bye ", "goodbye", "", "  ",
      "What documents do I need for a passport?",
      "What time do you open?",
      "Where do I book a meeting to file a complaint?",
      "I want to schedule a meeting to apply" }

\* llm.generate_content(prompt): the reply text, or the call (or .text) raises
Raises == [ok |-> FALSE, text |-> ""]
Reply(t) == [ok |-> TRUE, text |-> t]
ModelOutcomes(texts) == {Raises} \cup {Reply(t) : t \in texts}

\* replies to the classification prompt
ClassifyReplies ==
    { "sql_query", " SQL_Query\n", "procedural_info", "status_check", "general",
      "service_requirements", "Service_Requirements\n", "check_documents",
      "schedule_appointment", "file_complaint", "general_info",
      "I think it is sql_query", "" }

\* replies to the query-synthesis prompt
QueryReplies ==
    { "SELECT title FROM service LIMIT 10",
      "^^^sql\nSELECT * FROM service s, document_type dt WHERE s.title ILIKE '%passport%'\n^^^",
      "select * from service, document_type",
      "SELECT * FROM service s JOIN department d WHERE d.title ILIKE '%health%'",
      "SELECT * FROM service s JOIN department d",
      "SELECT doc_type FROM document_type",
      "  SELECT title FROM department  ",
      "DROP TABLE service",
      "SELECT title, created_at FROM service",
      "SELECT 1; delete from service",
      "Here is the query: SELECT 1",
      "^^^SQL\nSELECT 1\n^^^",
      "" }

\* replies to the result-formatting prompt
FormatReplies == { "Here are the services you asked about.", "", " \n" }

\* rows as the store's client returns them, by the call that asks for them
ServiceDocRows ==
    { [title |-> "Passport", description |-> "Travel document",
       department |-> [title |-> "Immigration", email |-> "imm@gov.lk"]] }
ServiceDeptRows ==
    { [title |-> "Clinic", description |-> "",
       department |-> [title |-> "Health", email |-> "", phone_no |-> "1990"]] }
DocumentTypeRows == { [doc_type |-> "Birth certificate", description |-> "Original"] }
DepartmentRows ==
    { [title |-> "Health", description |-> "Ministry of Health",
       email |-> "health@gov.lk", phone_no |-> "1990"] }
ServiceRows == { [title |-> "Passport", description |-> "Travel document"] }

\* all sequences over S of length 0..n
SeqsUpTo(S, n) == UNION {[1..k -> S] : k \in 0..n}

\* Python's List[Dict] | None
ListOf(rows) == [tag |-> "list", rows |-> rows]
NoneList == [tag |-> "None", rows |-> <<>>]

(***************************************************************************)
(* sql_agent.py: the node functions as pure operators.                     *)
(***************************************************************************)
\* the fixed response templates, each named by its opening line
ApologyTemplate == "I'm sorry, I couldn't process your request at the moment."
NotFoundTemplate == "I couldn't find specific information for your query."
OfficeHoursTemplate == "Government Office Hours"
ComplaintTemplate == "How to File a Complaint"
ApplicationTemplate == "General Application Process"
WelcomeTemplate == "Welcome to Sri Lankan Government Services"
StatusCheckTemplate == "Check Your Application Status"
FallbackHeader == "Here's what I found for you:\n\n"
FallbackClosing == "Need more information?"

\* the errors of the data-lookup path
ErrInvalidQuery == "Invalid query type"
ErrForbidden == "Query contains forbidden operations"
ErrUnableToProcess == "Unable to process your request"
ErrConnection == "Database connection failed"
ErrRetrieve == "Unable to retrieve information at this time"

\* valid_intents of sql_agent.classify_intent
SqlValidIntents == {"sql_query", "procedural_info", "status_check", "general"}

\* a variant of the classifier below that accepts a reply which only mentions a label
SqlClassifyIntent_Mentions(outcome) ==
    IF ~outcome.ok
    THEN "general"
    ELSE LET intent == Lower(Strip(outcome.text))
             hits == {l \in SqlValidIntents : Contains(intent, l)}
         IN IF hits = {} THEN "general" ELSE CHOOSE l \in hits : TRUE
\* sql_agent.classify_intent: the intent it returns for one outcome of the model call
SqlClassifyIntent(outcome) ==
    IF ~outcome.ok
    THEN "general"
    ELSE LET intent == Lower(Strip(outcome.text))
         IN IF intent \notin SqlValidIntents THEN "general" ELSE intent

dangerous_keywords == {"DROP", "DELETE", "UPDATE", "INSERT", "ALTER", "CREATE", "TRUNCATE"}

\* a character that can be part of an SQL identifier
IsIdentChar(c) == c \in DOMAIN LowerOf \/ c \in DOMAIN UpperOf \/ c = "_"

\* a variant of the test below that looks for the keywords as whole words
HasDangerousKeyword_WholeWord(sql) ==
    LET text == Upper(sql)
    IN \E keyword \in dangerous_keywords :
          \E i \in 1..(Len(text) - Len(keyword) + 1) :
              /\ SubSeq(text, i, i + Len(keyword) - 1) = keyword
              /\ (i = 1 \/ ~IsIdentChar(CharAt(text, i - 1)))
              /\ (i + Len(keyword) > Len(text)
                     \/ ~IsIdentChar(CharAt(text, i + Len(keyword))))

\* a variant of the test below that does not upper-case the text
HasDangerousKeyword_CaseSensitive(sql) ==
    \E keyword \in dangerous_keywords : Contains(sql, keyword)

\* any(keyword in sql_query.upper() for keyword in dangerous_keywords)
HasDangerousKeyword(sql) == \E keyword \in dangerous_keywords : Contains(Upper(sql), keyword)

\* a variant of the test below that looks for SELECT anywhere in the text
NotSelect_Anywhere(sql) == ~Contains(Upper(sql), "SELECT")

\* not sql_query.upper().startswith('SELECT')
NotSelect(sql) == ~StartsWith(Upper(sql), "SELECT")

\* generate_sql_query: the fields it returns for one outcome of the model call
GenerateSql(outcome) ==
    IF ~outcome.ok
    THEN [error |-> ErrUnableToProcess, sql_query |-> ""]
    ELSE LET sql == CleanSql(outcome.text)
         IN IF NotSelect(sql)
            THEN [error |-> ErrInvalidQuery, sql_query |-> ""]
            ELSE IF HasDangerousKeyword(sql)
                 THEN [error |-> ErrForbidden, sql_query |-> ""]
                 ELSE [error |-> None, sql_query |-> sql]

\* execute_sql_query returns the state as it is
ExecuteSkips(st) == st.sql_query = "" \/ Truthy(st.error)

\* the result-count caps of execute_with_supabase_client (0: no .limit())
JoinLimit == 20
DocumentTypeLimit == 20
DepartmentLimit == 20
DefaultLimit == 10
NoLimit == 0

\* execute_with_supabase_client: the structured call chosen for a query text
\* (issue = FALSE: no call is made and the function falls off its end)
StoreCallFor(sql_query) ==
    LET sql_lower == Lower(sql_query)
    IN IF Contains(sql_lower, "service") /\ Contains(sql_lower, "document_type")
       THEN IF TitleIlikeMatches(sql_lower)
            THEN [issue |-> TRUE, kind |-> "service_docs", table |-> "service",
                  pattern |-> "%" \o TitleIlikeGroup(sql_lower) \o "%", limit |-> NoLimit]
            ELSE [issue |-> FALSE, kind |-> "none", table |-> "",
                  pattern |-> None, limit |-> NoLimit]
       ELSE IF Contains(sql_lower, "service") /\ Contains(sql_lower, "department")
       THEN IF TitleIlikeMatches(sql_lower)
            THEN [issue |-> TRUE, kind |-> "service_dept", table |-> "service",
                  pattern |-> "%" \o TitleIlikeGroup(sql_lower) \o "%", limit |-> NoLimit]
            ELSE [issue |-> TRUE, kind |-> "service_dept", table |-> "service",
                  pattern |-> None, limit |-> JoinLimit]
       ELSE IF Contains(sql_lower, "document_type")
       THEN [issue |-> TRUE, kind |-> "document_type", table |-> "document_type",
             pattern |-> None, limit |-> DocumentTypeLimit]
       ELSE IF Contains(sql_lower, "department")
       THEN [issue |-> TRUE, kind |-> "department", table |-> "department",
             pattern |-> None, limit |-> DepartmentLimit]
       ELSE [issue |-> TRUE, kind |-> "service", table |-> "service",
             pattern |-> None, limit |-> DefaultLimit]

\* the rows a call of one kind may bring back
RowsOfKind(kind) ==
    CASE kind = "service_docs" -> ServiceDocRows
      [] kind = "service_dept" -> ServiceDeptRows
      [] kind = "document_type" -> DocumentTypeRows
      [] kind = "department" -> DepartmentRows
      [] OTHER -> ServiceRows

\* .execute(): it raises, or result.data is a list of rows
StoreOutcomes(kind) ==
    {[ok |-> FALSE, rows |-> <<>>]}
        \cup {[ok |-> TRUE, rows |-> r] : r \in SeqsUpTo(RowsOfKind(kind), MaxRows)}

\* execute_with_supabase_client: what it returns
ExecuteWithSupabaseClient(call, outcome) ==
    IF ~call.issue
    THEN NoneList
    ELSE IF ~outcome.ok THEN ListOf(<<>>) ELSE ListOf(outcome.rows)

\* the fallback renderer of format_sql_response: rows listed, and the
\* threshold and the offset of its "more results" note
FallbackRows == 5
MoreThreshold == 5
MoreOffset == 5

\* dict.get(key, default)
Get(item, key, default) == IF key \in DOMAIN item THEN item[key] ELSE default

\* the department block of one rendered row, lines 324-331
RenderDepartment(dept) ==
    "   Department: " \o Get(dept, "title", "N/A") \o "\n"
    \o (IF Get(dept, "email", "") # "" THEN "   Contact: " \o dept.email ELSE "")
    \o (IF Get(dept, "phone_no", "") # "" THEN " | " \o dept.phone_no ELSE "")
    \o "\n"

\* one row of the fallback renderer, lines 310-339
RenderItem(i, item) ==
    ToString(i) \o ". "
    \o (IF "title" \in DOMAIN item THEN item.title \o "\n" ELSE "")
    \o (IF Get(item, "description", "") # ""
        THEN "   Description: " \o item.description \o "\n" ELSE "")
    \o (IF "doc_type" \in DOMAIN item
        THEN "   Document: " \o item.doc_type
             \o (IF Get(item, "is_mandatory", TRUE) THEN " (Required)" ELSE " (Optional)")
             \o "\n"
        ELSE "")
    \o (IF "department" \in DOMAIN item THEN RenderDepartment(item.department) ELSE "")
    \o (IF Get(item, "email", "") # "" THEN "   Email: " \o item.email \o "\n" ELSE "")
    \o (IF Get(item, "phone_no", "") # "" THEN "   Phone: " \o item.phone_no \o "\n" ELSE "")
    \o "\n"

\* for i, item in enumerate(rows, 1): the rows from index i on
RECURSIVE RenderItems(_, _)
RenderItems(rows, i) ==
    IF i > Len(rows) THEN "" ELSE RenderItem(i, rows[i]) \o RenderItems(rows, i + 1)

\* sql_result[:5]
ListedRows(rows) ==
    SubSeq(rows, 1, IF Len(rows) < FallbackRows THEN Len(rows) ELSE FallbackRows)

\* a variant of the note below whose threshold test is >= instead of >
MoreNote_AtThreshold(rows) ==
    IF Len(rows) >= MoreThreshold
    THEN "... and " \o ToString(Len(rows) - MoreOffset) \o " more results available.\n\n"
    ELSE ""

\* the "more results" note, lines 341-342
MoreNote(rows) ==
    IF Len(rows) > MoreThreshold
    THEN "... and " \o ToString(Len(rows) - MoreOffset) \o " more results available.\n\n"
    ELSE ""

\* the deterministic fallback renderer, lines 305-347
FallbackRender(rows) ==
    FallbackHeader \o RenderItems(ListedRows(rows), 1) \o MoreNote(rows) \o FallbackClosing

\* `if error:` of format_sql_response
FormatSeesError(st) == Truthy(st.error)

\* `if not sql_result:` of format_sql_response
FormatSeesNoRows(st) == st.sql_result.tag = "None" \/ st.sql_result.rows = <<>>

\* format_sql_response invokes the model
FormatCallsModel(st) == ~FormatSeesError(st) /\ ~FormatSeesNoRows(st)

\* a variant of the function below that tests for rows before it tests for an error
FormatSqlResponse_RowsFirst(st, outcome) ==
    IF FormatSeesNoRows(st) THEN NotFoundTemplate
    ELSE IF FormatSeesError(st) THEN ApologyTemplate
    ELSE IF outcome.ok THEN Strip(outcome.text)
    ELSE FallbackRender(st.sql_result.rows)

\* format_sql_response: the response for one outcome of the model call
FormatSqlResponse(st, outcome) ==
    IF FormatSeesError(st) THEN ApologyTemplate
    ELSE IF FormatSeesNoRows(st) THEN NotFoundTemplate
    ELSE IF outcome.ok THEN Strip(outcome.text)
    ELSE FallbackRender(st.sql_result.rows)

\* handle_procedural_info: the template chosen by the secondary keyword checks
ProceduralResponse(input) ==
    LET user_input == Lower(input)
    IN IF \/ Contains(user_input, "office hours")
          \/ Contains(user_input, "timing")
          \/ Contains(user_input, "time")
       THEN OfficeHoursTemplate
       ELSE IF Contains(user_input, "complaint") \/ Contains(user_input, "file complaint")
       THEN ComplaintTemplate
       ELSE IF Contains(user_input, "apply") \/ Contains(user_input, "application")
       THEN ApplicationTemplate
       ELSE WelcomeTemplate

\* a variant of the conditional edges below that sends a data lookup straight to the executor
SqlRoutes_SkipsSynthesis ==
    [sql_query |-> "execute_sql", procedural_info |-> "procedural_info",
     status_check |-> "status_check", general |-> "procedural_info"]

\* a variant of the mapping below without the catch-all label
SqlRoutes_NoCatchAll ==
    [sql_query |-> "generate_sql", procedural_info |-> "procedural_info",
     status_check |-> "status_check"]

\* the conditional edges out of "classify" in sql_agent.py
SqlRoutes ==
    [sql_query |-> "generate_sql", procedural_info |-> "procedural_info",
     status_check |-> "status_check", general |-> "procedural_info"]

(***************************************************************************)
(* The state: the program running, the loop's position, the Request        *)
(* Context, the transcript, and a record of what one request did.          *)
(***************************************************************************)
VARIABLES
    variant,               \* which of the three programs runs
    pc,                    \* "input", a node of the workflow, "route", "END",
                           \* "raised", "exited", "crashed", "no_route"
    turns,                 \* lines read from the prompt so far
    state,                 \* AgentState of the current request
    conversation_history,  \* the loop's list of "You: ..." / "Bot: ..." lines
    transcript,            \* the lines written to the log file on exit
    out,                   \* what the loop printed since the last line was read
    nodesRun,              \* nodes executed by the current request, in order
    respWrites,            \* writes of the response field by the current request
    modelCalls,            \* calls of llm.generate_content by the current request:
                           \* the calling node and the outcome it got
    connects,              \* calls of get_supabase_client by the current request
    storeCalls,            \* structured store calls issued by the current request
    rendered               \* runs of the fallback renderer by the current request

vars == <<variant, pc, turns, state, conversation_history, transcript, out,
          nodesRun, respWrites, modelCalls, connects, storeCalls, rendered>>

\* what one request did
audit == <<nodesRun, respWrites, modelCalls, connects, storeCalls, rendered>>

\* one call of llm.generate_content
ModelCall(node, outcome) == [node |-> node, ok |-> outcome.ok, text |-> outcome.text]

\* db_result of chatbot.py and chatbot_new.py: a dict, here with every key it
\* is ever given (None: the key is absent)
EmptyDbResult ==
    [error |-> None, service_name |-> None, documents |-> <<>>,
     department |-> None, info |-> None]

\* the dict the loop passes to agent.invoke
InitialState(user_input) ==
    [user_input |-> user_input, intent |-> "", response |-> "", sql_query |-> "",
     sql_result |-> ListOf(<<>>), error |-> None, needs_clarification |-> FALSE,
     db_result |-> EmptyDbResult, service_name |-> None]

\* no request is in flight: the Request Context does not outlive its request
NoRequest ==
    /\ state = InitialState("")
    /\ nodesRun = <<>>
    /\ respWrites = 0
    /\ modelCalls = <<>>
    /\ connects = 0
    /\ storeCalls = <<>>
    /\ rendered = 0

Init ==
    /\ variant \in Variants
    /\ pc = "input"
    /\ turns = 0
    /\ conversation_history = <<>>
    /\ transcript = <<>>
    /\ out = <<>>
    /\ NoRequest

\* the request is over: its context and its record are dropped
EndRequest ==
    /\ state' = InitialState("")
    /\ nodesRun' = <<>>
    /\ respWrites' = 0
    /\ modelCalls' = <<>>
    /\ connects' = 0
    /\ storeCalls' = <<>>
    /\ rendered' = 0

(***************************************************************************)
(* sql_agent.py: the nodes of the workflow.                                *)
(***************************************************************************)
\* node "classify" of sql_agent.py
SqlClassify ==
    /\ variant = "sql_agent" /\ pc = "classify"
    /\ \E outcome \in ModelOutcomes(ClassifyReplies) :
          /\ state' = [state EXCEPT !.intent = SqlClassifyIntent(outcome)]
          /\ modelCalls' = Append(modelCalls, ModelCall("classify", outcome))
    /\ nodesRun' = Append(nodesRun, "classify")
    /\ pc' = "route"
    /\ UNCHANGED <<variant, turns, conversation_history, transcript, out,
                   respWrites, connects, storeCalls, rendered>>

\* node "generate_sql"
GenerateSqlQuery ==
    /\ variant = "sql_agent" /\ pc = "generate_sql"
    /\ \E outcome \in ModelOutcomes(QueryReplies) :
          LET r == GenerateSql(outcome)
          IN /\ state' = [state EXCEPT !.error = r.error, !.sql_query = r.sql_query]
             /\ modelCalls' = Append(modelCalls, ModelCall("generate_sql", outcome))
    /\ nodesRun' = Append(nodesRun, "generate_sql")
    /\ pc' = "execute_sql"
    /\ UNCHANGED <<variant, turns, conversation_history, transcript, out,
                   respWrites, connects, storeCalls, rendered>>

\* node "execute_sql": the early return of line 181
ExecuteSqlSkip ==
    /\ variant = "sql_agent" /\ pc = "execute_sql"
    /\ ExecuteSkips(state)
    /\ nodesRun' = Append(nodesRun, "execute_sql")
    /\ pc' = "format_response"
    /\ UNCHANGED <<variant, turns, state, conversation_history, transcript, out,
                   respWrites, modelCalls, connects, storeCalls, rendered>>

\* node "execute_sql": get_supabase_client() returns None
ExecuteSqlNoClient ==
    /\ variant = "sql_agent" /\ pc = "execute_sql"
    /\ ~ExecuteSkips(state)
    /\ state' = [state EXCEPT !.error = ErrConnection, !.sql_result = ListOf(<<>>)]
    /\ connects' = connects + 1
    /\ nodesRun' = Append(nodesRun, "execute_sql")
    /\ pc' = "format_response"
    /\ UNCHANGED <<variant, turns, conversation_history, transcript, out,
                   respWrites, modelCalls, storeCalls, rendered>>

\* node "execute_sql": the client is there and execute_with_supabase_client runs
ExecuteSqlQuery ==
    /\ variant = "sql_agent" /\ pc = "execute_sql"
    /\ ~ExecuteSkips(state)
    /\ LET call == StoreCallFor(state.sql_query)
       IN /\ \E outcome \in (IF call.issue THEN StoreOutcomes(call.kind)
                                           ELSE {[ok |-> TRUE, rows |-> <<>>]}) :
                state' = [state EXCEPT
                            !.sql_result = ExecuteWithSupabaseClient(call, outcome),
                            !.error = None]
          /\ storeCalls' = IF call.issue THEN Append(storeCalls, call) ELSE storeCalls
    /\ connects' = connects + 1
    /\ nodesRun' = Append(nodesRun, "execute_sql")
    /\ pc' = "format_response"
    /\ UNCHANGED <<variant, turns, conversation_history, transcript, out,
                   respWrites, modelCalls, rendered>>

\* node "format_response"
FormatResponse ==
    /\ variant = "sql_agent" /\ pc = "format_response"
    /\ \E outcome \in (IF FormatCallsModel(state) THEN ModelOutcomes(FormatReplies)
                                                   ELSE {Raises}) :
          /\ state' = [state EXCEPT !.response = FormatSqlResponse(state, outcome)]
          /\ rendered' = IF FormatCallsModel(state) /\ ~outcome.ok
                         THEN rendered + 1 ELSE rendered
          /\ modelCalls' = IF FormatCallsModel(state)
                           THEN Append(modelCalls, ModelCall("format_response", outcome))
                           ELSE modelCalls
    /\ respWrites' = respWrites + 1
    /\ nodesRun' = Append(nodesRun, "format_response")
    /\ pc' = "END"
    /\ UNCHANGED <<variant, turns, conversation_history, transcript, out,
                   connects, storeCalls>>

\* node "procedural_info"
HandleProceduralInfo ==
    /\ variant = "sql_agent" /\ pc = "procedural_info"
    /\ state' = [state EXCEPT !.response = ProceduralResponse(state.user_input)]
    /\ respWrites' = respWrites + 1
    /\ nodesRun' = Append(nodesRun, "procedural_info")
    /\ pc' = "END"
    /\ UNCHANGED <<variant, turns, conversation_history, transcript, out,
                   modelCalls, connects, storeCalls, rendered>>

\* node "status_check"
HandleStatusCheck ==
    /\ variant = "sql_agent" /\ pc = "status_check"
    /\ state' = [state EXCEPT !.response = StatusCheckTemplate]
    /\ respWrites' = respWrites + 1
    /\ nodesRun' = Append(nodesRun, "status_check")
    /\ pc' = "END"
    /\ UNCHANGED <<variant, turns, conversation_history, transcript, out,
                   modelCalls, connects, storeCalls, rendered>>

(***************************************************************************)
(* chatbot_new.py: the node functions.                                     *)
(***************************************************************************)
\* valid_intents of chatbot_new.classify_intent
NewValidIntents ==
    {"service_requirements", "check_documents", "schedule_appointment",
     "file_complaint", "general_info", "general"}

\* chatbot_new.classify_intent: when the model call raises, the except clause
\* only prints, and `return {**state, "intent": intent}` finds intent unbound
NewClassifyRaises(outcome) == ~outcome.ok

\* chatbot_new.classify_intent: the intent it returns when the call succeeds
NewClassifyIntent(outcome) ==
    LET intent == Lower(Strip(outcome.text))
    IN IF intent \notin NewValidIntents THEN "general" ELSE intent

\* service_keywords of extract_service_name, in the order they are tried
service_keywords ==
    << "passport", "driving license", "license", "birth certificate",
       "marriage certificate", "business registration", "tax clearance",
       "police clearance", "grama niladhari", "identity card", "nic",
       "death certificate", "divorce certificate", "land registration" >>

\* extract_service_name: the first keyword found in the lower-cased input, or None
ExtractServiceName(input) ==
    LET user_input == Lower(input)
        hits == {i \in 1..Len(service_keywords) : Contains(user_input, service_keywords[i])}
    IN IF hits = {} THEN None
       ELSE service_keywords[CHOOSE i \in hits : \A j \in hits : i <= j]

\* a variant of the template below that hands the caught error to the user
UnableTemplate_ErrorText == "'NoneType' object is not subscriptable"

ClarifyTemplate == "I'd be happy to help you find the required documents for a service."
UnableTemplate == "Unable to retrieve service information at the moment."
DocumentStatusTemplate == "Document Status Check"
AppointmentTemplate == "Appointment Booking"
FileComplaintTemplate == "File a Complaint"
PortalTemplate == "Sri Lankan Government Services Portal"
HoursTemplate == "Government Office Hours\n\nStandard Hours: Monday - Friday"
LocationsTemplate == "Service Locations"
AssistantTemplate == "Government Services Assistant"

\* a variant of the response below that does not name the service asked about
ServiceNotFoundResponse_Unnamed(service_name) ==
    "Sorry, I couldn't find information about that service in our database."

\* the "couldn't find" response of get_service_requirements, lines 215-221
ServiceNotFoundResponse(service_name) ==
    "Sorry, I couldn't find information about \"" \o service_name \o "\" in our database."

\* what the first store call of get_service_requirements may bring back:
\* it raises, no record, a record with its department, a record whose
\* department relation is null
ServiceLookups ==
    { [ok |-> FALSE, found |-> FALSE, hasDept |-> FALSE],
      [ok |-> TRUE, found |-> FALSE, hasDept |-> FALSE],
      [ok |-> TRUE, found |-> TRUE, hasDept |-> TRUE],
      [ok |-> TRUE, found |-> TRUE, hasDept |-> FALSE] }

\* what a store call of get_service_requirements got: the call raised, its
\* .data is empty, .data holds records, or .data holds a record whose joined
\* relation is null
LookupGot(lookup) ==
    IF ~lookup.ok THEN "raised"
    ELSE IF ~lookup.found THEN "none"
    ELSE IF ~lookup.hasDept THEN "malformed"
    ELSE "rows"

\* a required_doc_for_service record (wellFormed: its document_type relation is there)
FormDoc == [doc_type |-> "Application form", is_mandatory |-> TRUE, wellFormed |-> TRUE]
OldPassportDoc == [doc_type |-> "Old passport", is_mandatory |-> FALSE, wellFormed |-> TRUE]
OrphanDoc == [doc_type |-> "", is_mandatory |-> TRUE, wellFormed |-> FALSE]

\* what the second store call may bring back
DocLookups ==
    {[ok |-> FALSE, rows |-> <<>>]}
        \cup {[ok |-> TRUE, rows |-> r] :
                 r \in {<<>>, <<FormDoc>>, <<FormDoc, OldPassportDoc>>, <<FormDoc, OrphanDoc>>}}

\* the same for the second store call
DocsGot(docs) ==
    IF ~docs.ok THEN "raised"
    ELSE IF \E i \in 1..Len(docs.rows) : ~docs.rows[i].wellFormed THEN "malformed"
    ELSE "rows"

\* the numbered document lines, lines 240-245
RECURSIVE DocLines(_, _)
DocLines(rows, i) ==
    IF i > Len(rows) THEN ""
    ELSE ToString(i) \o ". " \o rows[i].doc_type
         \o (IF rows[i].is_mandatory THEN " (Mandatory)" ELSE " (Optional)") \o "\n"
         \o DocLines(rows, i + 1)

\* the response built on the success path, lines 234-257
RequirementsResponse(rows) ==
    "Passport Application\n\nRequired Documents:\n"
    \o (IF rows # <<>> THEN DocLines(rows, 1)
        ELSE "No specific documents found in database. Please contact the department for details.\n")
    \o "\nDepartment: Immigration\nContact: imm@gov.lk | 1962\n"

\* get_service_requirements once a service keyword was found: what it returns
\* for the outcomes of get_supabase_client and of its store calls
ServiceRequirements(service_name, clientOk, lookup, docs) ==
    IF ~clientOk
    THEN [response |-> UnableTemplate, calls |-> 0,
          db_result |-> [EmptyDbResult EXCEPT !.error = "Could not connect to database"]]
    ELSE IF ~lookup.ok
    THEN [response |-> UnableTemplate, calls |-> 1,
          db_result |-> [EmptyDbResult EXCEPT !.error = "store call failed"]]
    ELSE IF ~lookup.found
    THEN [response |-> ServiceNotFoundResponse(service_name), calls |-> 1,
          db_result |-> [EmptyDbResult EXCEPT !.error = "Service not found"]]
    ELSE IF ~docs.ok
    THEN [response |-> UnableTemplate, calls |-> 2,
          db_result |-> [EmptyDbResult EXCEPT !.error = "store call failed"]]
    ELSE IF \E i \in 1..Len(docs.rows) : ~docs.rows[i].wellFormed
    THEN [response |-> UnableTemplate, calls |-> 2,
          db_result |-> [EmptyDbResult EXCEPT !.error = "'NoneType' object is not subscriptable"]]
    ELSE IF ~lookup.hasDept
    THEN [response |-> UnableTemplate, calls |-> 2,
          db_result |-> [EmptyDbResult EXCEPT !.error = "'NoneType' object is not subscriptable"]]
    ELSE [response |-> RequirementsResponse(docs.rows), calls |-> 2,
          db_result |-> [EmptyDbResult EXCEPT
                            !.service_name = "Passport Application",
                            !.documents = [i \in 1..Len(docs.rows) |-> docs.rows[i].doc_type],
                            !.department = "Immigration"]]

\* handle_general_queries: the template chosen by the keyword checks
GeneralQueryResponse(input) ==
    LET user_input == Lower(input)
    IN IF \E word \in {"hours", "timing", "open", "closed"} : Contains(user_input, word)
       THEN HoursTemplate
       ELSE IF \E word \in {"location", "address", "where", "find"} : Contains(user_input, word)
       THEN LocationsTemplate
       ELSE AssistantTemplate

\* the conditional edges out of "classify" in chatbot_new.py
NewRoutes ==
    [service_requirements |-> "service_requirements", check_documents |-> "check_documents",
     schedule_appointment |-> "schedule_appointment", file_complaint |-> "file_complaint",
     general_info |-> "general_info", general |-> "general"]

\* node "classify" of chatbot_new.py
NewClassify ==
    /\ variant = "chatbot_new" /\ pc = "classify"
    /\ \E outcome \in ModelOutcomes(ClassifyReplies) :
          /\ modelCalls' = Append(modelCalls, ModelCall("classify", outcome))
          /\ IF NewClassifyRaises(outcome)
             THEN /\ pc' = "raised"
                  /\ state' = state
             ELSE /\ pc' = "route"
                  /\ state' = [state EXCEPT !.intent = NewClassifyIntent(outcome)]
    /\ nodesRun' = Append(nodesRun, "classify")
    /\ UNCHANGED <<variant, turns, conversation_history, transcript, out,
                   respWrites, connects, storeCalls, rendered>>

\* node "service_requirements": get_service_requirements
GetServiceRequirements ==
    /\ variant = "chatbot_new" /\ pc = "service_requirements"
    /\ LET service_name == ExtractServiceName(state.user_input)
       IN IF service_name = None
          THEN /\ state' = [state EXCEPT !.response = ClarifyTemplate,
                                         !.service_name = None]
               /\ UNCHANGED <<connects, storeCalls>>
          ELSE \E clientOk \in BOOLEAN, lookup \in ServiceLookups, docs \in DocLookups :
                  LET r == ServiceRequirements(service_name, clientOk, lookup, docs)
                      first == [issue |-> TRUE, kind |-> "service_lookup",
                                table |-> "service",
                                pattern |-> "%" \o service_name \o "%", limit |-> NoLimit,
                                got |-> LookupGot(lookup)]
                      second == [issue |-> TRUE, kind |-> "required_docs",
                                 table |-> "required_doc_for_service",
                                 pattern |-> None, limit |-> NoLimit,
                                 got |-> DocsGot(docs)]
                  IN /\ state' = [state EXCEPT !.response = r.response,
                                               !.db_result = r.db_result,
                                               !.service_name = service_name]
                     /\ connects' = connects + 1
                     /\ storeCalls' = storeCalls
                                      \o (IF r.calls >= 1 THEN <<first>> ELSE <<>>)
                                      \o (IF r.calls >= 2 THEN <<second>> ELSE <<>>)
    /\ respWrites' = respWrites + 1
    /\ nodesRun' = Append(nodesRun, "service_requirements")
    /\ pc' = "END"
    /\ UNCHANGED <<variant, turns, conversation_history, transcript, out,
                   modelCalls, rendered>>

\* a node that answers with a fixed template and a fixed db_result
TemplateNode(node, response, info) ==
    /\ pc = node
    /\ state' = [state EXCEPT !.response = response,
                              !.db_result = IF info = None THEN @
                                            ELSE [EmptyDbResult EXCEPT !.info = info]]
    /\ respWrites' = respWrites + 1
    /\ nodesRun' = Append(nodesRun, node)
    /\ pc' = "END"
    /\ UNCHANGED <<variant, turns, conversation_history, transcript, out,
                   modelCalls, connects, storeCalls, rendered>>

\* node "check_documents" of chatbot_new.py
CheckDocumentStatus ==
    /\ variant = "chatbot_new"
    /\ TemplateNode("check_documents", DocumentStatusTemplate, "authentication_required")

\* node "schedule_appointment" of chatbot_new.py
HandleAppointments ==
    /\ variant = "chatbot_new"
    /\ TemplateNode("schedule_appointment", AppointmentTemplate, "general_guidance")

\* node "file_complaint" of chatbot_new.py
HandleComplaints ==
    /\ variant = "chatbot_new"
    /\ TemplateNode("file_complaint", FileComplaintTemplate, "online, phone, written")

\* node "general_info" of chatbot_new.py
ProvideGeneralInfo ==
    /\ variant = "chatbot_new"
    /\ TemplateNode("general_info", PortalTemplate, None)

\* node "general" of chatbot_new.py
HandleGeneralQueries ==
    /\ variant = "chatbot_new"
    /\ TemplateNode("general", GeneralQueryResponse(state.user_input), None)

(***************************************************************************)
(* chatbot.py: the keyword classifier and its four handlers.               *)
(***************************************************************************)
\* chatbot.classify_intent
ChatClassifyIntent(input) ==
    LET user_input == Lower(input)
    IN IF \E word \in {"document", "status", "check", "application"} :
             Contains(user_input, word)
       THEN "check_documents"
       ELSE IF \E word \in {"complaint", "problem", "issue", "file"} :
                  Contains(user_input, word)
       THEN "file_complaint"
       ELSE IF \E word \in {"appointment", "schedule", "meeting", "book"} :
                  Contains(user_input, word)
       THEN "schedule_appointment"
       ELSE "general"

\* the labels chatbot.classify_intent can return
ChatIntents == {"check_documents", "file_complaint", "schedule_appointment", "general"}

\* the conditional edges out of "classify" in chatbot.py
ChatRoutes ==
    [check_documents |-> "check_documents", file_complaint |-> "file_complaint",
     schedule_appointment |-> "schedule_appointment", general |-> "general"]

\* node "classify" of chatbot.py
ChatClassify ==
    /\ variant = "chatbot" /\ pc = "classify"
    /\ state' = [state EXCEPT !.intent = ChatClassifyIntent(state.user_input)]
    /\ nodesRun' = Append(nodesRun, "classify")
    /\ pc' = "route"
    /\ UNCHANGED <<variant, turns, conversation_history, transcript, out,
                   respWrites, modelCalls, connects, storeCalls, rendered>>

\* node "check_documents" of chatbot.py
FetchDocuments ==
    /\ variant = "chatbot"
    /\ TemplateNode("check_documents",
                    "Your documents are approved. Available documents: passport, license",
                    "approved")

\* node "file_complaint" of chatbot.py
FileComplaint ==
    /\ variant = "chatbot"
    /\ TemplateNode("file_complaint",
                    "Your complaint has been filed successfully. Complaint ID: COMP-2025-001",
                    "submitted")

\* node "schedule_appointment" of chatbot.py
ScheduleAppointment ==
    /\ variant = "chatbot"
    /\ TemplateNode("schedule_appointment",
                    "Appointment scheduled successfully. ID: APPT-2025-001 on 2025-08-20 at 10:00 AM",
                    "APPT-2025-001")

\* node "general" of chatbot.py
GeneralResponse ==
    /\ variant = "chatbot"
    /\ TemplateNode("general",
                    "Hello! I'm here to help you with government services.",
                    None)

(***************************************************************************)
(* The router: the conditional edges of the compiled graph.                *)
(***************************************************************************)
\* a variant of the mapping below where sql_agent.py sends every intent to the
\* data-lookup chain
Routes_AllToLookup(v) ==
    CASE v = "sql_agent" -> [l \in SqlValidIntents |-> "generate_sql"]
      [] v = "chatbot_new" -> NewRoutes
      [] OTHER -> ChatRoutes

\* the mapping given to add_conditional_edges
Routes(v) ==
    CASE v = "sql_agent" -> SqlRoutes
      [] v = "chatbot_new" -> NewRoutes
      [] OTHER -> ChatRoutes

\* the successor of "classify" for route_intent's value ("no_route": the
\* value is no key of the mapping and the graph has nowhere to go)
RouteTarget(v, intent) ==
    IF intent \in DOMAIN Routes(v) THEN Routes(v)[intent] ELSE "no_route"

\* route_intent and the conditional edge
Route ==
    /\ pc = "route"
    /\ pc' = RouteTarget(variant, state.intent)
    /\ UNCHANGED <<variant, turns, state, conversation_history, transcript, out, audit>>

(***************************************************************************)
(* The interactive loops (the __main__ blocks).                            *)
(***************************************************************************)
\* what the loop makes of the line read: chatbot.py takes input() as it is,
\* the other two strip it
ReadLine(v, line) == IF v = "chatbot" THEN line ELSE Strip(line)

\* the loop's exit test
IsSentinel(v, user_input) ==
    CASE v = "chatbot" -> user_input = "exit"
      [] v = "chatbot_new" -> Lower(user_input) \in {"exit", "quit", "bye"}
      [] OTHER -> Lower(user_input) \in {"exit", "quit", "bye", "goodbye"}

\* `if not user_input: ... continue`, which chatbot.py does not have
RejectsEmpty(v) == v # "chatbot"

\* a variant of the test below for loops that record nothing of what is typed
KeepsTranscript_None(v) == FALSE

\* the loop keeps conversation_history and writes it out on exit
KeepsTranscript(v) == v # "sql_agent"

\* a variant of the test below for a loop that calls agent.invoke outside any try
HasTopLevelExcept_Never(v) == FALSE

\* agent.invoke is inside a try with `except Exception`
HasTopLevelExcept(v) == v # "chatbot"

\* the apology of the loop's except clause
LoopApology(v) ==
    IF v = "chatbot_new"
    THEN "Sorry, I encountered an error. Please try again or call 1919 for assistance."
    ELSE "I apologize, but I'm experiencing technical difficulties right now."

EmptyPrompt(v) ==
    IF v = "chatbot_new"
    THEN "Please ask me something about government services."
    ELSE "I'm here to help! Please ask me about any government service you need information about."

\* the log file: header, one line per message, footer
TranscriptOf(v, history) ==
    IF v = "chatbot_new"
    THEN <<"Sri Lankan Government Services - Conversation Log", "=====", "Date: now", "=====">>
         \o history \o <<"=====", "End of Conversation">>
    ELSE <<"Your Conversation Log:", "-----">> \o history \o <<"-----", "End of Conversation">>

\* a sentinel is read: the loop ends and the transcript is written
LoopExit ==
    /\ pc = "input" /\ turns < MaxTurns
    /\ \E line \in Inputs : IsSentinel(variant, ReadLine(variant, line))
    /\ turns' = turns + 1
    /\ pc' = "exited"
    /\ transcript' = IF KeepsTranscript(variant)
                     THEN TranscriptOf(variant, conversation_history)
                     ELSE transcript
    /\ out' = <<"Goodbye">>
    /\ UNCHANGED <<variant, state, conversation_history, audit>>

\* an empty line is read: the loop asks again
LoopEmpty ==
    /\ pc = "input" /\ turns < MaxTurns
    /\ RejectsEmpty(variant)
    /\ \E line \in Inputs :
          /\ ~IsSentinel(variant, ReadLine(variant, line))
          /\ ReadLine(variant, line) = ""
    /\ turns' = turns + 1
    /\ out' = <<EmptyPrompt(variant)>>
    /\ UNCHANGED <<variant, pc, state, conversation_history, transcript, audit>>

\* any other line: the loop records it and calls agent.invoke
LoopInvoke ==
    /\ pc = "input" /\ turns < MaxTurns
    /\ \E line \in Inputs :
          LET user_input == ReadLine(variant, line)
          IN /\ ~IsSentinel(variant, user_input)
             /\ ~(RejectsEmpty(variant) /\ user_input = "")
             /\ state' = InitialState(user_input)
             /\ conversation_history' =
                    IF KeepsTranscript(variant)
                    THEN Append(conversation_history, "You: " \o user_input)
                    ELSE conversation_history
    /\ turns' = turns + 1
    /\ out' = <<>>
    /\ pc' = "classify"
    /\ UNCHANGED <<variant, transcript, audit>>

\* agent.invoke returned: the loop prints result['response']
LoopReturn ==
    /\ pc = "END"
    /\ out' = Append(out, state.response)
    /\ conversation_history' =
           IF KeepsTranscript(variant)
           THEN Append(conversation_history, "Bot: " \o state.response)
           ELSE conversation_history
    /\ pc' = "input"
    /\ EndRequest
    /\ UNCHANGED <<variant, turns, transcript>>

\* agent.invoke raised: the except clause of the loop, or, where the loop
\* has none, the end of the process
LoopExcept ==
    /\ pc = "raised"
    /\ IF HasTopLevelExcept(variant)
       THEN /\ out' = Append(out, LoopApology(variant))
            /\ conversation_history' =
                   IF variant = "chatbot_new"
                   THEN Append(conversation_history, "Bot: " \o LoopApology(variant))
                   ELSE conversation_history
            /\ pc' = "input"
       ELSE /\ pc' = "crashed"
            /\ UNCHANGED <<out, conversation_history>>
    /\ EndRequest
    /\ UNCHANGED <<variant, turns, transcript>>

Next ==
    \/ LoopExit \/ LoopEmpty \/ LoopInvoke \/ LoopReturn \/ LoopExcept
    \/ Route
    \/ SqlClassify \/ GenerateSqlQuery
    \/ ExecuteSqlSkip \/ ExecuteSqlNoClient \/ ExecuteSqlQuery
    \/ FormatResponse \/ HandleProceduralInfo \/ HandleStatusCheck
    \/ NewClassify \/ GetServiceRequirements \/ CheckDocumentStatus
    \/ HandleAppointments \/ HandleComplaints \/ ProvideGeneralInfo
    \/ HandleGeneralQueries
    \/ ChatClassify \/ FetchDocuments \/ FileComplaint \/ ScheduleAppointment
    \/ GeneralResponse

Spec == Init /\ [][Next]_vars

(***************************************************************************)
(* Vocabulary of the properties.                                           *)
(***************************************************************************)
\* the fixed enumeration of intent labels of each program
Enumeration(v) ==
    CASE v = "sql_agent" -> SqlValidIntents
      [] v = "chatbot_new" -> NewValidIntents
      [] OTHER -> ChatIntents

\* the canned-template handlers of each program
TemplateHandlers(v) ==
    CASE v = "sql_agent" -> {"procedural_info", "status_check"}
      [] v = "chatbot_new" -> NewValidIntents
      [] OTHER -> ChatIntents

\* the data-lookup chain
LookupChain == <<"generate_sql", "execute_sql", "format_response">>

\* the handler nodes the current request has run, in order
IsHandler(n) == n # "classify"
Handlers == SelectSeq(nodesRun, IsHandler)

\* the request in flight has ended, normally or by an exception
RequestOver == pc \in {"END", "raised"}

\* the calls of the query-synthesis model made by the current request
SynthesisCalls == {i \in DOMAIN modelCalls : modelCalls[i].node = "generate_sql"}

\* a reply that, cleaned, does not start with SELECT in any letter case
ReplyIsNotSelect(text) == ~StartsWith(Upper(CleanSql(text)), "SELECT")

\* a reply that holds a denylisted keyword in any letter case
ReplyHasDenylisted(text) ==
    \E k \in {"DROP", "DELETE", "UPDATE", "INSERT", "ALTER", "CREATE", "TRUNCATE"} :
        Contains(Upper(text), k)

Min(a, b) == IF a < b THEN a ELSE b

\* the numbers that open a numbered row of a rendered response
NumberedRows(response) ==
    {i \in 1..(MaxRows + 1) : Contains(response, "\n" \o ToString(i) \o ". ")}

(***************************************************************************)
(* C1.  Whatever the input and whatever the outcome of the model call,     *)
(* classify_intent returns a state whose intent is one label of the fixed  *)
(* enumeration, and no error leaves the classifier: once "classify" has    *)
(* run, the request has not raised and its intent is enumerated.           *)
(***************************************************************************)
C1_ClassifierTotal ==
    (variant \in {"chatbot_new", "sql_agent"} /\ nodesRun # <<>>)
        => (pc # "raised" /\ state.intent \in Enumeration(variant))

(***************************************************************************)
(* C2.  In every terminal state of the routing workflow the response is a  *)
(* non-empty string that was written exactly once during the request.      *)
(***************************************************************************)
C2_ResponseSetOnceNonEmpty ==
    pc = "END" => (state.response # "" /\ respWrites = 1)

(***************************************************************************)
(* C3.  Every request runs exactly one of the two paths: one               *)
(* canned-template handler, or the chain generate_sql, execute_sql,        *)
(* format_response; never both, never neither, no handler twice.           *)
(***************************************************************************)
C3_ExactlyOnePath ==
    /\ \A i, j \in DOMAIN nodesRun : nodesRun[i] = nodesRun[j] => i = j
    /\ \/ Handlers = SubSeq(LookupChain, 1, Len(Handlers))
       \/ Len(Handlers) = 1 /\ Handlers[1] \in TemplateHandlers(variant)
    /\ RequestOver =>
          \/ Handlers = LookupChain
          \/ Len(Handlers) = 1 /\ Handlers[1] \in TemplateHandlers(variant)

(***************************************************************************)
(* C4.  A synthesized text that, cleaned, does not start with SELECT (in   *)
(* any letter case) leaves error = "Invalid query type" and sql_query      *)
(* empty, and execute_sql then does not contact the store.                 *)
(***************************************************************************)
C4_NonSelectRejected ==
    \A i \in SynthesisCalls :
        (modelCalls[i].ok /\ ReplyIsNotSelect(modelCalls[i].text))
            => /\ state.error = ErrInvalidQuery
               /\ state.sql_query = ""
               /\ connects = 0
               /\ storeCalls = <<>>

\* execute_sql has run after a reply that does not start with SELECT
C4_Witness ==
    /\ pc = "format_response"
    /\ \E i \in SynthesisCalls : modelCalls[i].ok /\ ReplyIsNotSelect(modelCalls[i].text)
    /\ state.error = ErrInvalidQuery
    /\ nodesRun = <<"classify", "generate_sql", "execute_sql">>

(***************************************************************************)
(* C5 as stated.  A synthesized text that holds a denylisted keyword is    *)
(* reported with the forbidden-operation error, whether or not it starts   *)
(* with SELECT.                                                            *)
(***************************************************************************)
C5_DenylistedAlwaysForbidden ==
    \A i \in SynthesisCalls :
        (modelCalls[i].ok /\ ReplyHasDenylisted(modelCalls[i].text))
            => state.error = ErrForbidden

(***************************************************************************)
(* C5 as amended.  A synthesized text that holds a denylisted keyword (in  *)
(* any letter case) is rejected, sql_query left empty and the store not    *)
(* contacted: with the forbidden-operation error when the cleaned text     *)
(* starts with SELECT, with the invalid-query error when it does not.      *)
(***************************************************************************)
C5_DenylistedRejected ==
    \A i \in SynthesisCalls :
        (modelCalls[i].ok /\ ReplyHasDenylisted(modelCalls[i].text))
            => /\ state.error = IF ReplyIsNotSelect(modelCalls[i].text)
                                THEN ErrInvalidQuery ELSE ErrForbidden
               /\ state.sql_query = ""
               /\ storeCalls = <<>>

\* generate_sql has refused a SELECT that holds a denylisted keyword
C5_Witness ==
    /\ pc = "execute_sql"
    /\ \E i \in SynthesisCalls :
          /\ modelCalls[i].ok
          /\ ReplyHasDenylisted(modelCalls[i].text)
          /\ ~ReplyIsNotSelect(modelCalls[i].text)
    /\ state.error = ErrForbidden

(***************************************************************************)
(* C6.  Once error is set, the steps after it short-circuit:               *)
(* execute_sql_query returns the state as it is and does not contact the   *)
(* store; format_sql_response answers with the fixed apology, calls no     *)
(* model and does not run the row renderer.                                *)
(***************************************************************************)
C6_ErrorShortCircuits ==
    [][ /\ (pc = "execute_sql" /\ Truthy(state.error))
            => (state' = state /\ connects' = connects /\ storeCalls' = storeCalls)
        /\ (pc = "format_response" /\ Truthy(state.error))
            => /\ state'.response = ApologyTemplate
               /\ modelCalls' = modelCalls
               /\ rendered' = rendered ]_vars

\* synthesis set the error, execute_sql and format_response have both run
C6_Witness ==
    /\ pc = "END"
    /\ state.error = ErrForbidden
    /\ nodesRun = <<"classify", "generate_sql", "execute_sql", "format_response">>
    /\ state.response = ApologyTemplate
    /\ connects = 0

(***************************************************************************)
(* C7.  A turn in which a step throws never ends the process: the loop     *)
(* prints exactly one fixed apology for the turn and is back at the        *)
(* prompt.                                                                 *)
(***************************************************************************)
C7_LoopSurvivesThrow ==
    /\ [](pc # "crashed")
    /\ [][pc = "raised" => (pc' = "input" /\ out' = <<LoopApology(variant)>>)]_vars

\* a turn threw, the apology is printed and the loop can read the next line
C7_Witness ==
    /\ pc = "input"
    /\ out = <<LoopApology(variant)>>
    /\ turns < MaxTurns

(***************************************************************************)
(* C8.  The query executor never raises, and sql_result is always a        *)
(* sequence of rows, never None; after a connectivity or call failure it   *)
(* is the empty sequence.                                                  *)
(***************************************************************************)
C8_ExecutorReturnsRows ==
    variant = "sql_agent" =>
        /\ pc # "raised"
        /\ state.sql_result.tag = "list"
        /\ state.error \in {ErrConnection, ErrRetrieve} => state.sql_result.rows = <<>>

(***************************************************************************)
(* C9.  When the formatting model call fails on n rows, the fallback       *)
(* renderer lists exactly the rows numbered 1..min(n, 5), and it appends   *)
(* the "more results available" note if and only if n > 5, the count in    *)
(* the note being n - 5.                                                   *)
(***************************************************************************)
C9_FallbackListsFive ==
    rendered = 1 =>
        LET n == Len(state.sql_result.rows)
        IN /\ NumberedRows(state.response) = 1..Min(n, 5)
           /\ Contains(state.response, "more results available") <=> n > 5
           /\ n > 5 => Contains(state.response,
                                "... and " \o ToString(n - 5) \o " more results available.")

\* the fallback renderer has run on more than five rows
C9_Witness ==
    /\ pc = "END"
    /\ rendered = 1
    /\ Len(state.sql_result.rows) = 6
    /\ Contains(state.response, "... and 1 more results available.")

(***************************************************************************)
(* C10.  The routing table is total over the enumeration: the router       *)
(* never finds itself with an intent that has no successor node, and the   *)
(* successor it takes is a handler node of the program.                    *)
(***************************************************************************)
C10_RoutingTotal ==
    /\ pc # "no_route"
    /\ pc = "route" =>
          /\ state.intent \in Enumeration(variant)
          /\ state.intent \in DOMAIN Routes(variant)
          /\ Routes(variant)[state.intent]
                \in TemplateHandlers(variant) \cup {"generate_sql"}

\* the router has sent the catch-all label to its handler
C10_Witness ==
    /\ variant = "sql_agent"
    /\ state.intent = "general"
    /\ pc = "procedural_info"

\* the calls of the classification model made by the current request
ClassifyCalls == {i \in DOMAIN modelCalls : modelCalls[i].node = "classify"}

\* the programs that classify by asking the model
ModelPolicy == {"chatbot_new", "sql_agent"}

(***************************************************************************)
(* C11.  Under the model policy the model is asked once, and its reply is  *)
(* the intent exactly when the reply, trimmed and lower-cased, equals one  *)
(* of the enumerated labels; every other reply gives "general".            *)
(***************************************************************************)
C11_ModelPolicyExact ==
    (variant \in ModelPolicy /\ nodesRun # <<>> /\ modelCalls[1].ok) =>
        LET reply == Lower(Strip(modelCalls[1].text))
        IN /\ Cardinality(ClassifyCalls) = 1
           /\ modelCalls[1].node = "classify"
           /\ (reply \in Enumeration(variant) => state.intent = reply)
           /\ (reply \notin Enumeration(variant) => state.intent = "general")

\* a reply that names a label inside a sentence has been answered with "general"
C11_Witness ==
    /\ variant = "sql_agent" /\ pc = "route"
    /\ modelCalls[1].ok
    /\ modelCalls[1].text = "I think it is sql_query"
    /\ state.intent = "general"

\* the keyword sets the keyword policy names
StatusWords == {"document", "status", "check", "application"}
AppointmentWords == {"appointment", "schedule", "meeting", "book"}
ComplaintWords == {"complaint", "problem", "issue", "file"}
HasWord(input, words) == \E w \in words : Contains(Lower(input), w)

(***************************************************************************)
(* C12.  Under the keyword policy the labels are tried in a fixed order    *)
(* and the first match wins: status and document words, then appointment   *)
(* words, then complaint words, and "general" when no set matches.  So an  *)
(* input with an appointment word and a complaint word and no status word  *)
(* is an appointment request.                                              *)
(***************************************************************************)
C12_KeywordPriority ==
    (variant = "chatbot" /\ nodesRun # <<>>) =>
        state.intent =
            IF HasWord(state.user_input, StatusWords) THEN "check_documents"
            ELSE IF HasWord(state.user_input, AppointmentWords) THEN "schedule_appointment"
            ELSE IF HasWord(state.user_input, ComplaintWords) THEN "file_complaint"
            ELSE "general"

\* the keywords the keyword policy reads as naming a service, and as asking
\* for its requirements
ServiceWords == {"passport", "license", "certificate", "registration", "permit"}
RequirementWords == {"document", "documents", "need", "required", "requirements", "paperwork"}

(***************************************************************************)
(* C13.  Under the keyword policy, an input that holds a service keyword   *)
(* and a requirement keyword is given the service-requirements label.      *)
(***************************************************************************)
C13_ServiceRequirementsLabel ==
    (/\ variant = "chatbot" /\ nodesRun # <<>>
     /\ HasWord(state.user_input, ServiceWords)
     /\ HasWord(state.user_input, RequirementWords)) =>
        state.intent = "service_requirements"

\* the sentinel tokens
SentinelTokens == {"exit", "quit", "bye"}

(***************************************************************************)
(* C14.  A sentinel token (exit, quit, bye) at the prompt ends the loop    *)
(* without the agent being invoked for that line, and when the loop has    *)
(* ended a transcript has been written: a fixed header, one line per       *)
(* recorded message, a fixed footer.                                       *)
(***************************************************************************)
C14_SentinelExitsWithTranscript ==
    /\ nodesRun # <<>> => Lower(state.user_input) \notin SentinelTokens
    /\ pc = "exited" =>
          /\ transcript # <<>>
          /\ transcript[Len(transcript)] = "End of Conversation"
          /\ \E h \in 1..4 :
                SubSeq(transcript, h + 1, Len(transcript) - 2) = conversation_history

(***************************************************************************)
(* C15.  The classifier never runs on an input that is empty once          *)
(* trimmed: the loop turns such a line away before it calls the agent.     *)
(***************************************************************************)
C15_EmptyInputRejected ==
    nodesRun # <<>> => Strip(state.user_input) # ""

\* the request in flight has run get_service_requirements
RanServiceRequirements ==
    /\ variant = "chatbot_new"
    /\ \E i \in DOMAIN nodesRun : nodesRun[i] = "service_requirements"

(***************************************************************************)
(* C16.  When get_service_requirements has extracted a service keyword     *)
(* from the input ("passport" from "What documents do I need for a         *)
(* passport?") and the store has no record of that service, the answer is  *)
(* the fixed "couldn't find information about <service>" text naming the   *)
(* keyword, db_result records "Service not found", and the lookup is the   *)
(* only store call of the request.                                         *)
(***************************************************************************)
C16_ServiceNotFound ==
    (RanServiceRequirements /\ storeCalls # <<>> /\ storeCalls[1].got = "none") =>
        /\ state.service_name # None
        /\ Contains(Lower(state.user_input), state.service_name)
        /\ state.user_input = "What documents do I need for a passport?"
              => state.service_name = "passport"
        /\ state.response = "Sorry, I couldn't find information about \""
                            \o state.service_name \o "\" in our database."
        /\ state.db_result.error = "Service not found"
        /\ Len(storeCalls) = 1
        /\ storeCalls[1].table = "service"

\* the passport question was asked and the store had no such service
C16_Witness ==
    /\ RanServiceRequirements /\ pc = "END"
    /\ state.user_input = "What documents do I need for a passport?"
    /\ storeCalls # <<>> /\ storeCalls[1].got = "none"
    /\ state.db_result.error = "Service not found"

\* s is an initial part of t
IsPrefix(s, t) == Len(s) <= Len(t) /\ SubSeq(t, 1, Len(s)) = s

\* the paths of the workflow after "classify": one templating node, or the
\* data-lookup chain
PathsAfterClassify ==
    {<<h>> : h \in TemplateHandlers(variant)}
        \cup (IF variant = "sql_agent" THEN {LookupChain} ELSE {})

\* no node occurs twice in the run of the current request
NoNodeTwice == \A i, j \in DOMAIN nodesRun : nodesRun[i] = nodesRun[j] => i = j

\* no external call is made again: each node asks the model at most once, the
\* store client is fetched at most once, and no store call is repeated
NoRetry ==
    /\ \A i, j \in DOMAIN modelCalls : modelCalls[i].node = modelCalls[j].node => i = j
    /\ connects <= 1
    /\ \A i, j \in DOMAIN storeCalls : storeCalls[i].table = storeCalls[j].table => i = j

\* a request is in flight: the loop has called agent.invoke and it has not
\* handed the outcome back
InFlight == pc \notin {"input", "exited", "crashed"}

\* one step of a request in flight: the router picks the handler, a node
\* runs and is added to the run, or the loop takes the outcome
RequestStep ==
    \/ /\ pc = "route"
       /\ pc' \in {path[1] : path \in PathsAfterClassify}
       /\ nodesRun' = nodesRun
    \/ /\ pc \notin {"route", "END", "raised"}
       /\ nodesRun' = Append(nodesRun, pc)
       /\ pc' # pc
    \/ /\ pc \in {"END", "raised"}
       /\ nodesRun' = <<>>
       /\ pc' \in {"input", "crashed"}

C18_EveryBranchCapped ==
    variant = "sql_agent" =>
        \A i \in DOMAIN storeCalls :
            storeCalls[i].limit # NoLimit /\ storeCalls[i].limit \in 1..JoinLimit

\* every model call the current request has made has failed
ModelUnavailable == \A i \in DOMAIN modelCalls : ~modelCalls[i].ok

(***************************************************************************)
(* C19.  With the model unavailable, so that every model call fails,       *)
(* classification, query synthesis and formatting each take their own      *)
(* fallback: the request does not end in an exception, it reaches the end  *)
(* of the workflow and its response is a static text.                      *)
(***************************************************************************)
C19_ModelUnavailableDegrades ==
    (variant \in ModelPolicy /\ nodesRun # <<>> /\ ModelUnavailable) =>
        /\ pc # "raised"
        /\ state.intent \in Enumeration(variant)
        /\ pc = "END" => state.response # ""

(***************************************************************************)
(* C20.  The synthesized query is there only on the data-lookup path: in   *)
(* every state of sql_agent.py whose intent is not sql_query, sql_query is *)
(* empty, sql_result is the empty sequence, and the current request has    *)
(* used neither the store nor the query-synthesis model.                   *)
(***************************************************************************)
C20_QueryOnlyOnLookupPath ==
    (variant = "sql_agent" /\ state.intent # "sql_query") =>
        /\ state.sql_query = ""
        /\ state.sql_result = ListOf(<<>>)
        /\ connects = 0
        /\ storeCalls = <<>>
        /\ SynthesisCalls = {}
        /\ \A i \in DOMAIN nodesRun : nodesRun[i] \notin {"generate_sql", "execute_sql"}

\* a request with another intent has been answered by its handler
C20_Witness ==
    /\ variant = "sql_agent" /\ pc = "END"
    /\ state.intent = "general"
    /\ nodesRun = <<"classify", "procedural_info">>
    /\ state.sql_query = ""

\* execute_with_supabase_client has run for the current request
ExecutorRan ==
    /\ variant = "sql_agent"
    /\ \E i \in DOMAIN nodesRun : nodesRun[i] = "execute_sql"
    /\ connects = 1
    /\ state.error # ErrConnection

\* the query text mentions a word, in any letter case
Mentions(word) == Contains(Lower(state.sql_query), word)

(***************************************************************************)
(* C21.  The executor picks its store call by substring tests on the       *)
(* lower-cased query, in this order: 'service' and 'document_type' give    *)
(* the service/required-documents join filtered by the title pattern;      *)
(* else 'service' and 'department' give the service/department join, with  *)
(* or without a filter; else 'document_type' gives the document types;     *)
(* else 'department' gives the departments; else the services.  Exactly    *)
(* one store call is issued, whatever the query text.                      *)
(***************************************************************************)
C21_BranchPriorityOneCall ==
    ExecutorRan =>
        /\ Len(storeCalls) = 1
        /\ LET call == storeCalls[1]
           IN IF Mentions("service") /\ Mentions("document_type")
              THEN call.kind = "service_docs" /\ call.table = "service"
                   /\ call.pattern # None
              ELSE IF Mentions("service") /\ Mentions("department")
              THEN call.kind = "service_dept" /\ call.table = "service"
              ELSE IF Mentions("document_type")
              THEN call.kind = "document_type" /\ call.table = "document_type"
              ELSE IF Mentions("department")
              THEN call.kind = "department" /\ call.table = "department"
              ELSE call.kind = "service" /\ call.table = "service"

\* generate_sql_query has just returned, and its model call brought a reply
SynthesisReplied ==
    /\ variant = "sql_agent" /\ pc = "execute_sql"
    /\ \E i \in SynthesisCalls : modelCalls[i].ok

\* the reply of the query-synthesis model to the current request
SynthesisReply == modelCalls[CHOOSE i \in SynthesisCalls : TRUE].text

(***************************************************************************)
(* C22.  The denylist gate is a case-insensitive substring test: a query   *)
(* that starts with SELECT is accepted, with error cleared and sql_query   *)
(* set to the cleaned text, exactly when its upper-cased text holds none   *)
(* of the seven denylisted words anywhere.  So a read-only SELECT that     *)
(* names the column created_at is rejected with the forbidden-operation    *)
(* error.                                                                  *)
(***************************************************************************)
C22_DenylistIsSubstringTest ==
    (SynthesisReplied /\ ~ReplyIsNotSelect(SynthesisReply)) =>
        /\ ~ReplyHasDenylisted(CleanSql(SynthesisReply)) =>
              /\ state.error = None
              /\ state.sql_query = CleanSql(SynthesisReply)
              /\ state.sql_query # ""
        /\ ReplyHasDenylisted(CleanSql(SynthesisReply)) =>
              /\ state.error = "Query contains forbidden operations"
              /\ state.sql_query = ""
        /\ SynthesisReply = "SELECT title, created_at FROM service" =>
              state.error = "Query contains forbidden operations"

\* a SELECT that only names the column created_at has been rejected
C22_Witness ==
    /\ SynthesisReplied
    /\ SynthesisReply = "SELECT title, created_at FROM service"
    /\ state.error = "Query contains forbidden operations"
    /\ state.sql_query = ""

\* the loop of chatbot_new.py is between two turns, or has ended
BetweenTurns == variant = "chatbot_new" /\ pc \in {"input", "exited"}

\* the lines of the history are "You: ..." and "Bot: ..." by turns, from the first
Alternates(history) ==
    \A i \in DOMAIN history :
        StartsWith(history[i], IF i % 2 = 1 THEN "You: " ELSE "Bot: ")

(***************************************************************************)
(* C23.  The history chatbot_new.py keeps for its transcript is well       *)
(* formed after any sequence of inputs: a line that is neither empty nor   *)
(* a sentinel adds one "You:" line and then one "Bot:" line, which is the  *)
(* agent's response or, when the turn throws, the fixed apology; an empty  *)
(* line and the sentinel add nothing.  Between turns the history has even  *)
(* length and alternates You/Bot, and the transcript written at the end    *)
(* holds exactly these lines.                                              *)
(***************************************************************************)
C23_TranscriptWellFormed ==
    /\ [](BetweenTurns =>
             /\ Len(conversation_history) % 2 = 0
             /\ Alternates(conversation_history))
    /\ [](variant = "chatbot_new" /\ pc = "exited" =>
             SubSeq(transcript, 5, Len(transcript) - 2) = conversation_history)
    /\ [][variant = "chatbot_new" =>
             \/ /\ pc = "input" /\ pc' = "classify"
                /\ state'.user_input # ""
                /\ Lower(state'.user_input) \notin SentinelTokens
                /\ conversation_history' =
                       Append(conversation_history, "You: " \o state'.user_input)
             \/ /\ pc = "END" /\ pc' = "input"
                /\ conversation_history' =
                       Append(conversation_history, "Bot: " \o state.response)
             \/ /\ pc = "raised" /\ pc' = "input"
                /\ conversation_history' =
                       Append(conversation_history,
                              "Bot: Sorry, I encountered an error. Please try again or call 1919 for assistance.")
             \/ /\ ~(pc = "input" /\ pc' = "classify")
                /\ pc \notin {"END", "raised"}
                /\ conversation_history' = conversation_history]_vars

\* a turn that threw and a turn that was answered, both on record
C23_Witness ==
    /\ BetweenTurns
    /\ Len(conversation_history) = 4
    /\ conversation_history[2] =
           "Bot: Sorry, I encountered an error. Please try again or call 1919 for assistance."
    /\ conversation_history[4] # conversation_history[2]

\* the input names none of the services extract_service_name knows
NoServiceKeyword ==
    \A i \in DOMAIN service_keywords :
        ~Contains(Lower(state.user_input), service_keywords[i])

\* the store failed the handler: no client, a call that raised, or a record
\* without the relation the handler reads from it
StoreFailed ==
    \/ connects = 1 /\ storeCalls = <<>>
    \/ \E i \in DOMAIN storeCalls : storeCalls[i].got \in {"raised", "malformed"}

(***************************************************************************)
(* C24.  get_service_requirements never raises and always sets a           *)
(* response.  When the input names no service it answers with the          *)
(* clarification prompt and does not contact the store; when the store is  *)
(* unreachable, a store call raises, or a record lacks a field the handler *)
(* reads, it answers with the fixed "Unable to retrieve service            *)
(* information" text and records the error in db_result.                   *)
(***************************************************************************)
C24_RequirementsHandlerNeverRaises ==
    RanServiceRequirements =>
        /\ pc = "END"
        /\ respWrites = 1
        /\ state.response # ""
        /\ NoServiceKeyword =>
              /\ state.response =
                     "I'd be happy to help you find the required documents for a service."
              /\ state.service_name = None
              /\ connects = 0 /\ storeCalls = <<>>
        /\ ~NoServiceKeyword => connects = 1
        /\ StoreFailed =>
              /\ state.response = "Unable to retrieve service information at the moment."
              /\ state.db_result.error \notin {None, "Service not found"}

\* the store gave a service record whose department relation is null, and
\* the handler answered with the fixed text
C24_Witness ==
    /\ RanServiceRequirements /\ pc = "END"
    /\ Len(storeCalls) = 2
    /\ storeCalls[1].got = "malformed"
    /\ storeCalls[2].got = "rows"
    /\ state.response = "Unable to retrieve service information at the moment."

====
